---- MODULE Spec2Model ----
(***************************************************************************)
(* A model of the boolean-expression engine of src/logica.py: the symbol   *)
(* normalizer, the tokenizer, the shunting-yard parser, the canonicalizer  *)
(* (_normalize_tree / _sort_nodes), the rewrite engine                     *)
(* (apply_rules_in_order) and the driver loop simplify_expression.         *)
(*                                                                         *)
(* A Python str is a sequence of one-character strings, so that indexing,  *)
(* slicing, replacing and the code-point order of str comparison are all   *)
(* computed, not assumed.  The characters outside Latin-1 are written by   *)
(* their code point ("U+2227"), and still count as ONE character.          *)
(***************************************************************************)
EXTENDS Integers, Sequences, FiniteSets, TLC

VARIABLES
    pc,       \* position in simplify_expression / in the function under call
    expr,     \* simplify_expression: the argument (a str)
    s,        \* simplify_expression: the normalized text
    ast,      \* simplify_expression: the current tree
    steps,    \* simplify_expression: the list of step records
    fired,    \* simplify_expression: what the last call of apply_rules_in_order returned
    fn,       \* direct calls of one function: which function is called
    arg,      \* direct calls: the argument(s)
    ret       \* direct calls: the value(s) returned or the error raised

vars == <<pc, expr, s, ast, steps, fired, fn, arg, ret>>

(***************************************************************************)
(* Characters and strings                                                  *)
(***************************************************************************)

\* The code point of each character the model uses (Python compares str by
\* code point).
CodePoint ==
    (" " :> 32) @@ ("!" :> 33) @@ ("#" :> 35) @@ ("&" :> 38) @@ ("(" :> 40) @@
    (")" :> 41) @@ ("*" :> 42) @@ ("+" :> 43) @@ ("0" :> 48) @@ ("1" :> 49) @@
    ("2" :> 50) @@ ("A" :> 65) @@ ("B" :> 66) @@ ("C" :> 67) @@ ("D" :> 68) @@
    ("N" :> 78) @@ ("O" :> 79) @@ ("R" :> 82) @@ ("T" :> 84) @@ ("_" :> 95) @@
    ("a" :> 97) @@ ("d" :> 100) @@ ("n" :> 110) @@ ("o" :> 111) @@
    ("r" :> 114) @@ ("t" :> 116) @@ ("|" :> 124) @@ ("~" :> 126) @@
    ("U+00AC" :> 172) @@ ("U+2022" :> 8226) @@ ("U+2227" :> 8743) @@
    ("U+2228" :> 8744) @@ ("U+22C5" :> 8901) @@ ("\t" :> 9)

Letters == {"A", "B", "C", "D", "N", "O", "R", "T",
            "a", "d", "n", "o", "r", "t"}
Digits == {"0", "1", "2"}

isspace(ch) == ch \in {" ", "\t"}
isdigit(ch) == ch \in Digits
isalpha(ch) == ch \in Letters
isalnum(ch) == isalpha(ch) \/ isdigit(ch)

Min(S) == CHOOSE x \in S : \A y \in S : x <= y

\* a < b for Python str: the first differing character decides, a proper
\* prefix is smaller.
StrLess(a, b) ==
    LET m == IF Len(a) < Len(b) THEN Len(a) ELSE Len(b)
        d == {i \in 1..m : a[i] # b[i]}
    IN  IF d = {} THEN Len(a) < Len(b)
        ELSE CodePoint[a[Min(d)]] < CodePoint[b[Min(d)]]

\* sep.join(parts)
RECURSIVE Join(_, _)
Join(sep, parts) ==
    IF parts = <<>> THEN <<>>
    ELSE IF Len(parts) = 1 THEN parts[1]
    ELSE parts[1] \o sep \o Join(sep, Tail(parts))

\* The elements of a sequence, as a set (Python's set(seq)).
Range(f) == {f[i] : i \in DOMAIN f}

(***************************************************************************)
(* The AST (logica.py, lines 7-27)                                         *)
(***************************************************************************)

Const(value) == [kind |-> "Const", value |-> value]
Var(name) == [kind |-> "Var", name |-> name]
Not(child) == [kind |-> "Not", child |-> child]
And(children) == [kind |-> "And", children |-> children]
Or(children) == [kind |-> "Or", children |-> children]

isinstance(n, k) == n.kind = k

(***************************************************************************)
(* Printer                                                                 *)
(***************************************************************************)

RECURSIVE node_to_str(_)

\* A printer that never parenthesizes an Or under an And.
_maybe_paren_for_and_bare(n) == node_to_str(n)

_maybe_paren_for_and(n) ==
    IF isinstance(n, "Or") THEN <<"(">> \o node_to_str(n) \o <<")">>
    ELSE node_to_str(n)

_maybe_paren_for_or(n) ==
    IF isinstance(n, "And") THEN <<"(">> \o node_to_str(n) \o <<")">>
    ELSE node_to_str(n)

node_to_str(n) ==
    CASE isinstance(n, "Const") -> IF n.value THEN <<"1">> ELSE <<"0">>
      [] isinstance(n, "Var") -> n.name
      [] isinstance(n, "Not") ->
            IF n.child.kind \in {"And", "Or"}
            THEN <<"!", "(">> \o node_to_str(n.child) \o <<")">>
            ELSE <<"!">> \o node_to_str(n.child)
      [] isinstance(n, "And") ->
            Join(<<" ", "&", " ">>,
                 [i \in DOMAIN n.children |-> _maybe_paren_for_and(n.children[i])])
      [] isinstance(n, "Or") ->
            Join(<<" ", "|", " ">>,
                 [i \in DOMAIN n.children |-> _maybe_paren_for_or(n.children[i])])

(***************************************************************************)
(* Canonicalizer                                                           *)
(***************************************************************************)

\* key(n) of _sort_nodes: (rank, second, printed string).
SortKey(n) ==
    CASE isinstance(n, "Const") -> <<0, IF n.value THEN 0 ELSE 1, <<>> >>
      [] isinstance(n, "Var") -> <<1, 0, n.name>>
      [] isinstance(n, "Not") -> <<2, 0, node_to_str(n)>>
      [] isinstance(n, "And") -> <<3, Len(n.children), node_to_str(n)>>
      [] isinstance(n, "Or") -> <<4, Len(n.children), node_to_str(n)>>

\* Python's order on the key tuples.
KeyLess(a, b) ==
    \/ a[1] < b[1]
    \/ a[1] = b[1] /\ a[2] < b[2]
    \/ a[1] = b[1] /\ a[2] = b[2] /\ StrLess(a[3], b[3])

\* sorted(nodes, key=key): stable, so the last element goes after every
\* element whose key is not greater than its own.
InsertByKey(init, x) ==
    SelectSeq(init, LAMBDA y : ~KeyLess(SortKey(x), SortKey(y)))
    \o <<x>>
    \o SelectSeq(init, LAMBDA y : KeyLess(SortKey(x), SortKey(y)))

RECURSIVE SortedByKey(_)
SortedByKey(nodes) ==
    IF nodes = <<>> THEN <<>>
    ELSE InsertByKey(SortedByKey(SubSeq(nodes, 1, Len(nodes) - 1)), nodes[Len(nodes)])

\* A sort that leaves the nodes in the order given.
_sort_nodes_unsorted(nodes) == nodes

_sort_nodes(nodes) == SortedByKey(nodes)

\* A loop that appends every child, same kind or not.
Flatten_none(kind, cs) == cs

\* The loop of _normalize_tree that splices the children of a same-kind
\* child into kids.
RECURSIVE Flatten(_, _)
Flatten(kind, cs) ==
    IF cs = <<>> THEN <<>>
    ELSE (IF isinstance(cs[1], kind) THEN cs[1].children ELSE <<cs[1]>>)
         \o Flatten(kind, Tail(cs))

RECURSIVE _normalize_tree(_)

\* A canonicalizer that sorts the children before it splices the children
\* of the same-kind ones in.
\* if len(kids) == 1: return kids[0]; else And(kids) / Or(kids)
NodeOf(kind, kids) ==
    IF Len(kids) = 1 THEN kids[1] ELSE [kind |-> kind, children |-> kids]

_normalize_tree_sort_first(n) ==
    CASE n.kind \in {"Const", "Var"} -> n
      [] isinstance(n, "Not") -> Not(_normalize_tree(n.child))
      [] n.kind \in {"And", "Or"} ->
            NodeOf(n.kind,
                   Flatten(n.kind,
                           _sort_nodes([i \in DOMAIN n.children |->
                                           _normalize_tree(n.children[i])])))

_normalize_tree(n) ==
    CASE n.kind \in {"Const", "Var"} -> n
      [] isinstance(n, "Not") -> Not(_normalize_tree(n.child))
      [] n.kind \in {"And", "Or"} ->
            NodeOf(n.kind,
                   _sort_nodes(Flatten(n.kind,
                                       [i \in DOMAIN n.children |->
                                           _normalize_tree(n.children[i])])))

(***************************************************************************)
(* Results of a call: a value returned, or a ValueError raised             *)
(***************************************************************************)

Return(v) == [ok |-> TRUE, value |-> v]
Raise(msg) == [ok |-> FALSE, err |-> msg]

(***************************************************************************)
(* Symbol normalizer                                                       *)
(***************************************************************************)

\* _SYMBOL_MAP.items(), in the order the dict literal gives them.
_SYMBOL_MAP ==
    << <<<<"U+2227">>, "&">>, <<<<"U+2022">>, "&">>, <<<<"*">>, "&">>,
       <<<<"U+22C5">>, "&">>, <<<<"A", "N", "D">>, "&">>, <<<<"a", "n", "d">>, "&">>,
       <<<<"U+2228">>, "|">>, <<<<"+">>, "|">>, <<<<"O", "R">>, "|">>,
       <<<<"o", "r">>, "|">>,
       <<<<"U+00AC">>, "!">>, <<<<"~">>, "!">>, <<<<"N", "O", "T">>, "!">>,
       <<<<"n", "o", "t">>, "!">> >>

_ALLOWED == Letters \cup Digits \cup {"_", "!", "&", "|", "(", ")", " "}

\* sorted(items, key=lambda kv: -len(kv[0])): stable, longest key first.
RECURSIVE ItemsByLenDesc(_, _)
ItemsByLenDesc(items, len) ==
    IF len = 0 THEN <<>>
    ELSE SelectSeq(items, LAMBDA kv : Len(kv[1]) = len)
         \o ItemsByLenDesc(items, len - 1)

SortedSymbolItems ==
    LET longest == CHOOSE l \in {Len(_SYMBOL_MAP[i][1]) : i \in DOMAIN _SYMBOL_MAP} :
                      \A i \in DOMAIN _SYMBOL_MAP : Len(_SYMBOL_MAP[i][1]) <= l
    IN  ItemsByLenDesc(_SYMBOL_MAP, longest)

\* str.replace(k, v): the non-overlapping occurrences of k, left to right.
RECURSIVE StrReplace(_, _, _)
StrReplace(str, k, v) ==
    IF Len(str) < Len(k) THEN str
    ELSE IF SubSeq(str, 1, Len(k)) = k
         THEN <<v>> \o StrReplace(SubSeq(str, Len(k) + 1, Len(str)), k, v)
         ELSE <<str[1]>> \o StrReplace(Tail(str), k, v)

RECURSIVE ReplaceAll(_, _)
ReplaceAll(str, items) ==
    IF items = <<>> THEN str
    ELSE ReplaceAll(StrReplace(str, items[1][1], items[1][2]), Tail(items))

\* re.sub(r"\s+", " ", s): every run of whitespace becomes one space.
RECURSIVE CollapseSpaces(_)
CollapseSpaces(str) ==
    IF str = <<>> THEN <<>>
    ELSE IF isspace(str[1])
         THEN IF Len(str) > 1 /\ isspace(str[2])
              THEN CollapseSpaces(Tail(str))
              ELSE <<" ">> \o CollapseSpaces(Tail(str))
         ELSE <<str[1]>> \o CollapseSpaces(Tail(str))

\* str.strip()
RECURSIVE Strip(_)
Strip(str) ==
    IF str = <<>> THEN <<>>
    ELSE IF isspace(str[1]) THEN Strip(Tail(str))
    ELSE IF isspace(str[Len(str)]) THEN Strip(SubSeq(str, 1, Len(str) - 1))
    ELSE str

normalize_symbols(raw) ==
    LET str == Strip(CollapseSpaces(ReplaceAll(raw, SortedSymbolItems)))
        bad == {str[i] : i \in {j \in DOMAIN str : str[j] \notin _ALLOWED}}
    IN  IF bad # {} THEN Raise("Símbolos inválidos encontrados")
        ELSE Return(str)

(***************************************************************************)
(* Tokenizer                                                               *)
(***************************************************************************)

\* The end (exclusive) of the identifier that starts at i: the inner while
\* loop of _tokenize.
RECURSIVE IdentEnd(_, _)
IdentEnd(str, j) ==
    IF j <= Len(str) /\ (isalnum(str[j]) \/ str[j] = "_")
    THEN IdentEnd(str, j + 1) ELSE j

RECURSIVE TokenizeFrom(_, _, _)
TokenizeFrom(str, i, tokens) ==
    IF i > Len(str) THEN Return(tokens)
    ELSE LET ch == str[i] IN
         IF isspace(ch) THEN TokenizeFrom(str, i + 1, tokens)
         ELSE IF ch \in {"!", "&", "|", "(", ")"}
              THEN TokenizeFrom(str, i + 1, Append(tokens, <<ch>>))
         ELSE IF isdigit(ch)
              THEN TokenizeFrom(str, i + 1, Append(tokens, <<ch>>))
         ELSE IF isalpha(ch) \/ ch = "_"
              THEN LET j == IdentEnd(str, i + 1)
                   IN  TokenizeFrom(str, j, Append(tokens, SubSeq(str, i, j - 1)))
         ELSE Raise("Carácter inválido")

_tokenize(str) == TokenizeFrom(str, 1, <<>>)

(***************************************************************************)
(* Parser                                                                  *)
(***************************************************************************)

\* _var_token_re.fullmatch(t): [A-Za-z_][A-Za-z0-9_]*
IsVarToken(t) ==
    /\ t # <<>>
    /\ isalpha(t[1]) \/ t[1] = "_"
    /\ \A i \in DOMAIN t : isalnum(t[i]) \/ t[i] = "_"

prec == (<<"!">> :> 3) @@ (<<"&">> :> 2) @@ (<<"|">> :> 1)

\* The parser's two stacks; err is "" until a ValueError is raised, and
\* nothing runs after that.
ParserStart == [output |-> <<>>, ops |-> <<>>, err |-> ""]

Top(stack) == stack[Len(stack)]
Pop(stack) == SubSeq(stack, 1, Len(stack) - 1)

apply_op(st, op) ==
    IF st.err # "" THEN st
    ELSE IF op = <<"!">>
         THEN IF st.output = <<>>
              THEN [st EXCEPT !.err = "Negación sin operando"]
              ELSE [st EXCEPT !.output = Append(Pop(st.output), Not(Top(st.output)))]
    ELSE IF op \in {<<"&">>, <<"|">>}
         THEN IF Len(st.output) < 2
              THEN [st EXCEPT !.err = "Operador binario sin suficientes operandos"]
              ELSE LET b == Top(st.output)
                       a == Top(Pop(st.output))
                       rest == Pop(Pop(st.output))
                   IN  IF op = <<"&">>
                       THEN [st EXCEPT !.output = Append(rest, And(<<a, b>>))]
                       ELSE [st EXCEPT !.output = Append(rest, Or(<<a, b>>))]
    ELSE [st EXCEPT !.err = "Operador desconocido"]

\* while ops and ops[-1] != '(' and prec[ops[-1]] >= prec[t]: apply_op(ops.pop())
RECURSIVE PopHigher(_, _)
PopHigher(st, t) ==
    IF st.err = "" /\ st.ops # <<>> /\ Top(st.ops) # <<"(">>
       /\ prec[Top(st.ops)] >= prec[t]
    THEN PopHigher(apply_op([st EXCEPT !.ops = Pop(st.ops)], Top(st.ops)), t)
    ELSE st

\* while ops and ops[-1] != '(': apply_op(ops.pop())
RECURSIVE PopToParen(_)
PopToParen(st) ==
    IF st.err = "" /\ st.ops # <<>> /\ Top(st.ops) # <<"(">>
    THEN PopToParen(apply_op([st EXCEPT !.ops = Pop(st.ops)], Top(st.ops)))
    ELSE st

\* One iteration of the token loop.
ParseToken(st, t) ==
    IF st.err # "" THEN st
    ELSE IF t = <<"1">> THEN [st EXCEPT !.output = Append(st.output, Const(TRUE))]
    ELSE IF t = <<"0">> THEN [st EXCEPT !.output = Append(st.output, Const(FALSE))]
    ELSE IF IsVarToken(t) THEN [st EXCEPT !.output = Append(st.output, Var(t))]
    ELSE IF t \in {<<"!">>, <<"&">>, <<"|">>}
         THEN IF t = <<"!">>
              THEN [st EXCEPT !.ops = Append(st.ops, t)]
              ELSE LET st2 == PopHigher(st, t)
                   IN  IF st2.err # "" THEN st2
                       ELSE [st2 EXCEPT !.ops = Append(st2.ops, t)]
    ELSE IF t = <<"(">> THEN [st EXCEPT !.ops = Append(st.ops, t)]
    ELSE IF t = <<")">>
         THEN LET st2 == PopToParen(st)
              IN  IF st2.err # "" THEN st2
                  ELSE IF st2.ops = <<>>
                       THEN [st2 EXCEPT !.err = "Paréntesis desbalanceados"]
                       ELSE [st2 EXCEPT !.ops = Pop(st2.ops)]
    ELSE [st EXCEPT !.err = "Token inesperado"]

RECURSIVE ParseTokens(_, _)
ParseTokens(st, tokens) ==
    IF tokens = <<>> THEN st
    ELSE ParseTokens(ParseToken(st, tokens[1]), Tail(tokens))

\* while ops: op = ops.pop(); a parenthesis left raises, else apply_op(op)
RECURSIVE DrainOps(_)
DrainOps(st) ==
    IF st.err # "" \/ st.ops = <<>> THEN st
    ELSE IF Top(st.ops) \in {<<"(">>, <<")">>}
         THEN [st EXCEPT !.err = "Paréntesis desbalanceados al final"]
         ELSE DrainOps(apply_op([st EXCEPT !.ops = Pop(st.ops)], Top(st.ops)))

parse_expression(text) ==
    LET str == Strip(text) IN
    IF str = <<>> THEN Raise("Expresión vacía")
    ELSE LET toks == _tokenize(str) IN
         IF ~toks.ok THEN toks
         ELSE LET st == DrainOps(ParseTokens(ParserStart, toks.value)) IN
              IF st.err # "" THEN Raise(st.err)
              ELSE IF Len(st.output) # 1 THEN Raise("Expresión mal formada")
              ELSE Return(_normalize_tree(st.output[1]))

(***************************************************************************)
(* Rewrite engine                                                          *)
(***************************************************************************)

\* The display names.  The en dash (U+2013) of LAW_FACT is written "-".
LAW_IDEMP == "Idempotencia"
LAW_NULL == "Anulación"
LAW_IDENT == "Identidad"
LAW_COMP == "Complementario"
LAW_ABS == "Absorción"
LAW_DNEG == "Doble negación"
LAW_FACT_short == "Organización (factor común)"
LAW_FACT == "Organización (factor común) - Distributiva"

\* Python's None, as a law and as a node.
NoLaw == "None"
None == [kind |-> "None"]

\* The triple apply_rules_in_order returns.
Triple(node, changed, law) == [node |-> node, changed |-> changed, law |-> law]

factors_and(n) == IF isinstance(n, "And") THEN n.children ELSE <<n>>
factors_or(n) == IF isinstance(n, "Or") THEN n.children ELSE <<n>>

\* The first occurrence of each node, in order.
RECURSIVE UniqueFrom(_, _)
UniqueFrom(nodes, out) ==
    IF nodes = <<>> THEN out
    ELSE UniqueFrom(Tail(nodes),
                    IF nodes[1] \in Range(out) THEN out ELSE Append(out, nodes[1]))

_unique_nodes(nodes) == UniqueFrom(nodes, <<>>)

\* A check that never finds a complement pair.
_has_complement_pair_never(nodes) == FALSE

_has_complement_pair(nodes) ==
    \E i \in DOMAIN nodes :
        \/ Not(nodes[i]) \in Range(nodes)
        \/ isinstance(nodes[i], "Not") /\ nodes[i].child \in Range(nodes)

\* A removal that removes nothing.
_remove_factors_none(src, rem) == src

_remove_factors(src, rem) == SelectSeq(src, LAMBDA x : x \notin rem)

\* tuple(sorted(common, key=lambda n: node_to_str(n))) of a set: the node
\* with the least printed string first.  Two different nodes of one set
\* with the same printed string would come in the set's iteration order;
\* the children of canonical nodes never print alike.
LeastByStr(set) ==
    CHOOSE y \in set : \A z \in set : ~StrLess(node_to_str(z), node_to_str(y))

RECURSIVE SortedByStr(_)
SortedByStr(set) ==
    IF set = {} THEN <<>>
    ELSE <<LeastByStr(set)>> \o SortedByStr(set \ {LeastByStr(set)})

\* The intersection of the term sets of the given terms (the loop over
\* and_terms / or_terms, which returns None as soon as it is empty).
CommonOf(terms) ==
    {x \in Range(terms[1].children) :
        \A i \in DOMAIN terms : x \in Range(terms[i].children)}

\* The residual of a term whose remaining factors are rest.
Residual(kind, rest) ==
    IF Len(rest) > 1 THEN _normalize_tree([kind |-> kind, children |-> rest])
    ELSE IF rest # <<>> THEN rest[1]
    ELSE Const(kind = "And")

\* The residual of one And term of _factor_common_for_or.
RestForOr(t, common_factors) ==
    Residual("And", _remove_factors(factors_and(t), Range(common_factors)))

\* The residual of one Or term of _factor_common_for_and.
RestForAnd(t, common_factors) ==
    Residual("Or", _remove_factors(factors_or(t), Range(common_factors)))

\* The terms of the given kind among the children.
TermsOf(kind, children) == SelectSeq(children, LAMBDA c : isinstance(c, kind))

\* Whether the factoring applies: two terms or more of the kind, a common
\* factor, and no child of another kind.
Factorable(kind, children) ==
    /\ Len(TermsOf(kind, children)) >= 2
    /\ CommonOf(TermsOf(kind, children)) # {}
    /\ \A i \in DOMAIN children : isinstance(children[i], kind)

_factor_common_for_or(children) ==
    IF ~Factorable("And", children) THEN None
    ELSE _normalize_tree(And(
            SortedByStr(CommonOf(TermsOf("And", children)))
            \o <<_normalize_tree(Or(
                    [i \in DOMAIN children |->
                        RestForOr(children[i],
                                  SortedByStr(CommonOf(TermsOf("And", children))))]))>>))

\* A factoring of an And of Or terms that builds And(factors..., Or(residuals...)).
_factor_common_for_and_same_kind(children) ==
    IF ~Factorable("Or", children) THEN None
    ELSE _normalize_tree(And(
            SortedByStr(CommonOf(TermsOf("Or", children)))
            \o <<_normalize_tree(Or(
                    [i \in DOMAIN children |->
                        RestForAnd(children[i],
                                   SortedByStr(CommonOf(TermsOf("Or", children))))]))>>))

_factor_common_for_and(children) ==
    IF ~Factorable("Or", children) THEN None
    ELSE _normalize_tree(Or(
            SortedByStr(CommonOf(TermsOf("Or", children)))
            \o <<_normalize_tree(And(
                    [i \in DOMAIN children |->
                        RestForAnd(children[i],
                                   SortedByStr(CommonOf(TermsOf("Or", children))))]))>>))

\* The absorption loops: the first c (in order) of the opposite kind that
\* has another child x (the first, in order) among its own children.
AbsorbPairs(new_children, opposite) ==
    {p \in (DOMAIN new_children) \X (DOMAIN new_children) :
        /\ isinstance(new_children[p[1]], opposite)
        /\ p[1] # p[2]
        /\ new_children[p[2]] \in Range(new_children[p[1]].children)}

FirstPair(pairs) ==
    CHOOSE p \in pairs :
        \A q \in pairs : p[1] < q[1] \/ (p[1] = q[1] /\ p[2] <= q[2])

Mk(kind, cs) == [kind |-> kind, children |-> cs]
Annihilator(kind) == Const(kind # "And")    \* 0 for And, 1 for Or
Identity(kind) == Const(kind = "And")       \* 1 for And, 0 for Or
Opposite(kind) == IF kind = "And" THEN "Or" ELSE "And"

\* nc = [c for c in new_children if c != identity]
WithoutIdentity(kind, new_children) ==
    SelectSeq(new_children, LAMBDA c : c # Identity(kind))

\* The result of the identity law, given nc.
IdentityResult(kind, nc) ==
    IF nc = <<>> THEN Triple(Identity(kind), TRUE, LAW_IDENT)
    ELSE Triple(IF Len(nc) > 1 THEN _normalize_tree(Mk(kind, nc)) ELSE nc[1],
                TRUE, LAW_IDENT)

\* The result of the factoring law, given what the factoring returned, or
\* the node unchanged.
FactorResult(kind, new_children, factored) ==
    IF factored # None THEN Triple(factored, TRUE, LAW_FACT)
    ELSE Triple(Mk(kind, new_children), FALSE, NoLaw)

\* The laws of an And node (lines 284-312) or an Or node (lines 324-350)
\* none of whose children changed.
NodeLaws(kind, new_children) ==
    IF Len(_unique_nodes(new_children)) < Len(new_children)
    THEN Triple(_normalize_tree(Mk(kind, _unique_nodes(new_children))), TRUE, LAW_IDEMP)
    ELSE IF Annihilator(kind) \in Range(new_children)
    THEN Triple(Annihilator(kind), TRUE, LAW_NULL)
    ELSE IF Len(WithoutIdentity(kind, new_children)) < Len(new_children)
    THEN IdentityResult(kind, WithoutIdentity(kind, new_children))
    ELSE IF _has_complement_pair(new_children)
    THEN Triple(Annihilator(kind), TRUE, LAW_COMP)
    ELSE IF AbsorbPairs(new_children, Opposite(kind)) # {}
    THEN Triple(new_children[FirstPair(AbsorbPairs(new_children, Opposite(kind)))[2]],
                TRUE, LAW_ABS)
    ELSE FactorResult(kind, new_children,
                      IF kind = "And" THEN _factor_common_for_and(new_children)
                      ELSE _factor_common_for_or(new_children))

RECURSIVE apply_rules_in_order(_)
RECURSIVE ScanChildren(_, _, _)
RECURSIVE ChildResult(_, _, _, _)

\* The loop over n.children of an And/Or node, from child i on, with the
\* unchanged results so far in new_children: the first child that changes
\* ends the call; with none, the node's own laws are tried.
ScanChildren(n, i, new_children) ==
    IF i > Len(n.children) THEN NodeLaws(n.kind, new_children)
    ELSE ChildResult(n, i, new_children, apply_rules_in_order(n.children[i]))

\* The body of the loop, r being what the call on child i returned.
ChildResult(n, i, new_children, r) ==
    IF r.changed
    THEN Triple(_normalize_tree(
                   Mk(n.kind,
                      new_children \o <<r.node>>
                      \o SubSeq(n.children, Len(new_children) + 2, Len(n.children)))),
                TRUE, r.law)
    ELSE ScanChildren(n, i + 1, Append(new_children, r.node))

\* The Not branch, r being what the call on the child returned.
NotResult(n, r) ==
    IF r.changed THEN Triple(Not(r.node), TRUE, r.law)
    ELSE IF isinstance(r.node, "Not") THEN Triple(r.node.child, TRUE, LAW_DNEG)
    ELSE Triple(n, FALSE, NoLaw)

apply_rules_in_order(n) ==
    CASE isinstance(n, "Not") -> NotResult(n, apply_rules_in_order(n.child))
      [] n.kind \in {"And", "Or"} -> ScanChildren(n, 1, <<>>)
      [] OTHER -> Triple(n, FALSE, NoLaw)

(***************************************************************************)
(* The texts given to simplify_expression                                  *)
(***************************************************************************)

\* The largest number of nodes (operators plus leaves) of an entered
\* expression.
MaxNodes == 6

Leaves == {Var(<<"A">>), Var(<<"B">>), Var(<<"C">>), Const(FALSE), Const(TRUE)}

\* The expressions of exactly n nodes built from the leaves with !, & and |.
Binary(left, right) ==
    {And(<<a, b>>) : a \in left, b \in right}
    \cup {Or(<<a, b>>) : a \in left, b \in right}

\* RawLevels(n)[m], for m in 1..n: the expressions of exactly m nodes.
RECURSIVE RawLevels(_)
RawLevels(n) ==
    IF n = 1 THEN <<Leaves>>
    ELSE LET prev == RawLevels(n - 1)
         IN  Append(prev,
                    {Not(t) : t \in prev[n - 1]}
                    \cup UNION {Binary(prev[k], prev[n - 1 - k]) : k \in 1..(n - 2)})

\* The proper subexpressions an entered expression can have.
SubTrees == RawLevels(MaxNodes - 1)

\* expr is the text of an expression of at most MaxNodes nodes.
EnteredExpression(text) ==
    \/ \E t \in Leaves : text = node_to_str(t)
    \/ \E m \in DOMAIN SubTrees : \E t \in SubTrees[m] : text = node_to_str(Not(t))
    \/ \E m \in DOMAIN SubTrees : \E k \in DOMAIN SubTrees :
          /\ m + k + 1 <= MaxNodes
          /\ \E a \in SubTrees[m] : \E b \in SubTrees[k] :
                \/ text = node_to_str(And(<<a, b>>))
                \/ text = node_to_str(Or(<<a, b>>))

\* Texts with alias symbols, a character that is not allowed, and texts
\* that do not parse.
ExtraInputs ==
    { <<"A", " ", "+", " ", "A">>,
      <<"A", " ", "*", " ", "!", "A">>,
      <<"A", " ", "+", " ", "1">>,
      <<"A", " ", "#", " ", "B">>,
      <<"A", " ", "o", "r", " ", "U+00AC", "B">>,
      <<"(", "A", " ", "&">>,
      <<" ", "\t">>,
      \* (A & B) | (A & C)
      <<"(", "A", " ", "&", " ", "B", ")", " ", "|", " ",
        "(", "A", " ", "&", " ", "C", ")">>,
      \* (A | B) & (A | C)
      <<"(", "A", " ", "|", " ", "B", ")", " ", "&", " ",
        "(", "A", " ", "|", " ", "C", ")">>,
      \* (A | B) & (A | B | C)
      <<"(", "A", " ", "|", " ", "B", ")", " ", "&", " ",
        "(", "A", " ", "|", " ", "B", " ", "|", " ", "C", ")">>,
      \* (A & B & C) | (A & B & D) | (A & !C)
      <<"(", "A", " ", "&", " ", "B", " ", "&", " ", "C", ")", " ", "|", " ",
        "(", "A", " ", "&", " ", "B", " ", "&", " ", "D", ")", " ", "|", " ",
        "(", "A", " ", "&", " ", "!", "C", ")">>,
      \* !((C | A & B) & (C | D))
      <<"!", "(", "(", "C", " ", "|", " ", "A", " ", "&", " ", "B", ")", " ",
        "&", " ", "(", "C", " ", "|", " ", "D", ")", ")">>,
      \* A | B | A & B
      <<"A", " ", "|", " ", "B", " ", "|", " ", "A", " ", "&", " ", "B">>,
      \* !!A & (B | C) & 1
      <<"!", "!", "A", " ", "&", " ", "(", "B", " ", "|", " ", "C", ")",
        " ", "&", " ", "1">> }


(***************************************************************************)
(* simplify_expression                                                     *)
(***************************************************************************)

Init ==
    /\ pc = "start"
    /\ \/ EnteredExpression(expr)
       \/ expr \in ExtraInputs
    /\ s = <<>>
    /\ ast = None
    /\ steps = <<>>
    /\ fired = Triple(None, FALSE, NoLaw)
    /\ fn = "simplify_expression"
    /\ arg = <<>>
    /\ ret = <<>>

\* s = normalize_symbols(expr)
Normalize ==
    /\ pc = "start"
    /\ LET r == normalize_symbols(expr) IN
       IF r.ok
       THEN /\ s' = r.value
            /\ pc' = "parse"
            /\ ret' = ret
       ELSE /\ s' = s
            /\ pc' = "raised"
            /\ ret' = r
    /\ UNCHANGED <<expr, ast, steps, fired, fn, arg>>

\* ast = parse_expression(s); steps = []
Parse ==
    /\ pc = "parse"
    /\ LET r == parse_expression(s) IN
       IF r.ok
       THEN /\ ast' = r.value
            /\ pc' = "loop"
            /\ ret' = ret
       ELSE /\ ast' = ast
            /\ pc' = "raised"
            /\ ret' = r
    /\ UNCHANGED <<expr, s, steps, fired, fn, arg>>

\* One iteration of the while loop in which a law fired.
Step ==
    /\ pc = "loop"
    /\ LET before == node_to_str(ast)
           r == apply_rules_in_order(ast)
           new == _normalize_tree(r.node)
       IN  /\ r.changed
           /\ fired' = r
           /\ ast' = new
           /\ steps' = Append(steps,
                  [before |-> before,
                   law |-> IF r.law # NoLaw THEN r.law ELSE "(sin cambio)",
                   after |-> node_to_str(new)])
    /\ UNCHANGED <<pc, expr, s, fn, arg, ret>>

\* The iteration in which no law fired: break, and return.
Finish ==
    /\ pc = "loop"
    /\ LET r == apply_rules_in_order(ast) IN
           /\ ~r.changed
           /\ fired' = r
           /\ ret' = Return(<<node_to_str(ast), steps>>)
    /\ pc' = "done"
    /\ UNCHANGED <<expr, s, ast, steps, fn, arg>>

Next == Normalize \/ Parse \/ Step \/ Finish

Spec == Init /\ [][Next]_vars

(***************************************************************************)
(* Properties of simplify_expression                                       *)
(***************************************************************************)

\* The tree parse_expression returned for the text being simplified.
Parsed == parse_expression(s).value

\* simplify_expression holds a tree: it is in its loop, or has returned.
HoldsTree == pc \in {"loop", "done"}

RECURSIVE VarNames(_)
VarNames(n) ==
    CASE isinstance(n, "Const") -> {}
      [] isinstance(n, "Var") -> {n.name}
      [] isinstance(n, "Not") -> VarNames(n.child)
      [] OTHER -> UNION {VarNames(n.children[i]) : i \in DOMAIN n.children}

\* The value of n when exactly the variables of trueVars are true.
RECURSIVE Eval(_, _)
Eval(n, trueVars) ==
    CASE isinstance(n, "Const") -> n.value
      [] isinstance(n, "Var") -> n.name \in trueVars
      [] isinstance(n, "Not") -> ~Eval(n.child, trueVars)
      [] isinstance(n, "And") -> \A i \in DOMAIN n.children : Eval(n.children[i], trueVars)
      [] isinstance(n, "Or") -> \E i \in DOMAIN n.children : Eval(n.children[i], trueVars)

Equivalent(a, b) ==
    \A trueVars \in SUBSET (VarNames(a) \cup VarNames(b)) :
        Eval(a, trueVars) = Eval(b, trueVars)

\* Operators plus leaves.
RECURSIVE NodeCount(_)
RECURSIVE SumCounts(_)
SumCounts(cs) == IF cs = <<>> THEN 0 ELSE NodeCount(cs[1]) + SumCounts(Tail(cs))
NodeCount(n) ==
    CASE n.kind \in {"Const", "Var"} -> 1
      [] isinstance(n, "Not") -> 1 + NodeCount(n.child)
      [] OTHER -> 1 + SumCounts(n.children)

\* n and every node below it.
RECURSIVE SubNodes(_)
SubNodes(n) ==
    CASE n.kind \in {"Const", "Var"} -> {n}
      [] isinstance(n, "Not") -> {n} \cup SubNodes(n.child)
      [] OTHER -> {n} \cup UNION {SubNodes(n.children[i]) : i \in DOMAIN n.children}

\* C1: for every assignment of truth values, the tree parse_expression
\* returned and the tree simplify_expression ends with (and so every tree
\* in between) have the same value.
C1_Soundness == HoldsTree => Equivalent(Parsed, ast)

\* C2: the loop ends, and records at most as many steps as the parsed tree
\* has nodes.  Every iteration of the loop either appends one step (Step)
\* or is the last one (Finish), so the bound on the number of steps is the
\* bound on the number of iterations: after at most NodeCount(Parsed)
\* steps the call of apply_rules_in_order returns changed = false.
C2_Termination ==
    HoldsTree =>
        /\ Len(steps) <= NodeCount(Parsed)
        /\ (pc = "loop" /\ Len(steps) = NodeCount(Parsed))
              => ~apply_rules_in_order(ast).changed

C2_Witness == pc = "done" /\ Len(steps) >= 3

\* C3: printing the tree held and parsing the text gives the tree back.
C3_RoundTrip == HoldsTree => parse_expression(node_to_str(ast)) = Return(ast)

\* A tree after a step that prints with parentheses.
C3_Witness ==
    /\ HoldsTree
    /\ Len(steps) >= 1
    /\ \E n \in SubNodes(ast) :
          /\ isinstance(n, "And")
          /\ \E i \in DOMAIN n.children : isinstance(n.children[i], "Or")

\* C7 as stated: the law of every step is one of these seven names.
ClaimedLawNames ==
    {"Idempotencia", "Anulación", "Identidad", "Complementario", "Absorción",
     "Doble negación", "Organización (factor común)"}

C7_LawNamesAsClaimed ==
    HoldsTree => \A i \in DOMAIN steps : steps[i].law \in ClaimedLawNames

\* (A & B) | (A & C), and the text it is rewritten to.
Scenario4 ==
    <<"(", "A", " ", "&", " ", "B", ")", " ", "|", " ",
      "(", "A", " ", "&", " ", "C", ")">>
Scenario4After == <<"A", " ", "&", " ", "(", "B", " ", "|", " ", "C", ")">>

\* C7, amended: the law of every step is one of the seven names of which
\* the last is "Organización (factor común) - Distributiva" (with an en
\* dash), and that is the label of the one step of "(A & B) | (A & C)",
\* which gives "A & (B | C)".
C7_LawNames ==
    /\ HoldsTree =>
          \A i \in DOMAIN steps :
              steps[i].law \in
                  {"Idempotencia", "Anulación", "Identidad", "Complementario",
                   "Absorción", "Doble negación",
                   "Organización (factor común) - Distributiva"}
    /\ (pc = "done" /\ expr = Scenario4) =>
          steps = << [before |-> Scenario4,
                      law |-> "Organización (factor común) - Distributiva",
                      after |-> Scenario4After] >>

C7_Witness == pc = "done" /\ expr = Scenario4 /\ Len(steps) = 1

\* C9: the key of the claim: rank, then arity, then printed string; of two
\* constants, true comes first.
ClaimedKey(n) ==
    CASE isinstance(n, "Const") -> <<0, IF n.value THEN 0 ELSE 1, node_to_str(n)>>
      [] isinstance(n, "Var") -> <<1, 0, node_to_str(n)>>
      [] isinstance(n, "Not") -> <<2, 0, node_to_str(n)>>
      [] isinstance(n, "And") -> <<3, Len(n.children), node_to_str(n)>>
      [] isinstance(n, "Or") -> <<4, Len(n.children), node_to_str(n)>>

ClaimedKeyLessEq(a, b) ==
    \/ a[1] < b[1]
    \/ a[1] = b[1] /\ a[2] < b[2]
    \/ a[1] = b[1] /\ a[2] = b[2] /\ ~StrLess(b[3], a[3])

CanonicalNode(n) ==
    n.kind \in {"And", "Or"} =>
        /\ Len(n.children) >= 2
        /\ \A i \in DOMAIN n.children : n.children[i].kind # n.kind
        /\ \A i \in 1..(Len(n.children) - 1) :
              ClaimedKeyLessEq(ClaimedKey(n.children[i]), ClaimedKey(n.children[i + 1]))

\* C9: the tree held by simplify_expression is canonical at every depth:
\* no And under an And, no Or under an Or, at least two children, and the
\* children in nondecreasing order of the key.
C9_Canonical == HoldsTree => \A n \in SubNodes(ast) : CanonicalNode(n)

\* A tree after a step with a composite node below a composite node.
C9_Witness ==
    /\ pc = "loop"
    /\ Len(steps) >= 1
    /\ ast.kind \in {"And", "Or"}
    /\ \E i \in DOMAIN ast.children : ast.children[i].kind \in {"And", "Or"}
    /\ Len(ast.children) >= 3

\* The call apply_rules_in_order(m) fires the factoring law on m itself:
\* no child of m changes, and the law returned is the factoring law.
FiresFactoringAt(m) ==
    /\ m.kind \in {"And", "Or"}
    /\ \A i \in DOMAIN m.children : ~apply_rules_in_order(m.children[i]).changed
    /\ apply_rules_in_order(m).law = LAW_FACT

OtherKind(kind) == IF kind = "And" THEN "Or" ELSE "And"

\* The terms common to all the children of m.
CommonTerms(m) ==
    {x \in Range(m.children[1].children) :
        \A i \in DOMAIN m.children : x \in Range(m.children[i].children)}

\* What one child t of m leaves under a node of kind inner once the common
\* terms are taken out: nothing left is the constant that is neutral for
\* t's kind, one term left stands alone (its children, when it is itself
\* of kind inner), several stay together under t's kind.
ResidualOf(t, common, inner) ==
    LET rest == SelectSeq(t.children, LAMBDA x : x \notin common) IN
    IF rest = <<>> THEN {Const(t.kind = "And")}
    ELSE IF Len(rest) = 1
         THEN IF rest[1].kind = inner THEN Range(rest[1].children) ELSE {rest[1]}
    ELSE {[kind |-> t.kind, children |-> rest]}

\* r is outer(commonFactors..., inner(residuals...)), in canonical form.
FactoredShape(m, r, outer, inner) ==
    /\ r.kind = outer
    /\ Len(r.children) = Cardinality(CommonTerms(m)) + 1
    /\ \E j \in DOMAIN r.children :
          /\ r.children[j].kind = inner
          /\ {r.children[i] : i \in DOMAIN r.children \ {j}} = CommonTerms(m)
          /\ Range(r.children[j].children)
                = UNION {ResidualOf(m.children[i], CommonTerms(m), inner) :
                            i \in DOMAIN m.children}

\* C8 as stated: factoring an And node of Or children gives
\* And(commonFactors..., Or(residuals...)), and factoring an Or node of And
\* children gives Or(commonFactors..., And(residuals...)).
C8_ShapeAsClaimed ==
    pc = "loop" =>
        \A m \in SubNodes(ast) :
            FiresFactoringAt(m) =>
                FactoredShape(m, apply_rules_in_order(m).node, m.kind, OtherKind(m.kind))

\* C8, amended: factoring an And node of Or children gives
\* Or(commonFactors..., And(residuals...)), and factoring an Or node of And
\* children gives And(commonFactors..., Or(residuals...)), each in
\* canonical form.
C8_Shape ==
    pc = "loop" =>
        \A m \in SubNodes(ast) :
            FiresFactoringAt(m) =>
                FactoredShape(m, apply_rules_in_order(m).node, OtherKind(m.kind), m.kind)

\* The factoring law has fired on an And node below the root, and the
\* step is recorded.
C8_Witness ==
    /\ pc = "loop"
    /\ Len(steps) >= 1
    /\ fired.law = LAW_FACT
    /\ LET before == parse_expression(steps[Len(steps)].before).value
       IN  \E m \in SubNodes(before) : FiresFactoringAt(m) /\ isinstance(m, "And")

\* A law of the claim's list applies at the node m itself: an And/Or node
\* with two equal children, a Const child, a child and its negation, or a
\* child of the opposite kind that has a sibling among its own children; a
\* Not node whose child is a Not node.
LawAppliesAt(m) ==
    IF isinstance(m, "Not") THEN isinstance(m.child, "Not")
    ELSE IF m.kind \in {"And", "Or"}
    THEN \E i \in DOMAIN m.children :
            \/ \E j \in DOMAIN m.children : i # j /\ m.children[i] = m.children[j]
            \/ isinstance(m.children[i], "Const")
            \/ \E j \in DOMAIN m.children : m.children[j] = Not(m.children[i])
            \/ /\ m.children[i].kind \in {"And", "Or"}
               /\ m.children[i].kind # m.kind
               /\ \E j \in DOMAIN m.children :
                     /\ i # j
                     /\ \E k \in DOMAIN m.children[i].children :
                           m.children[i].children[k] = m.children[j]
    ELSE FALSE

\* C11: when simplify_expression has returned, none of those laws applies
\* at any node of the final tree, at any depth.
C11_Fixpoint ==
    pc = "done" => \A m \in SubNodes(ast) : ~LawAppliesAt(m)

\* simplify_expression has returned after a step or more, and the final
\* tree has a Not node and an And/Or node with an And/Or child below the root.
C11_Witness ==
    /\ pc = "done"
    /\ Len(steps) >= 1
    /\ \E m \in SubNodes(ast) : isinstance(m, "Not")
    /\ \E m \in SubNodes(ast) :
          /\ m # ast
          /\ m.kind \in {"And", "Or"}
          /\ \E i \in DOMAIN m.children : m.children[i].kind \in {"And", "Or"}

(***************************************************************************)
(* Direct calls of one function                                            *)
(***************************************************************************)

\* simplify_expression is not running.
DriverIdle ==
    /\ expr = <<>>
    /\ s = <<>>
    /\ ast = None
    /\ steps = <<>>
    /\ fired = Triple(None, FALSE, NoLaw)

DriverUnchanged == UNCHANGED <<expr, s, ast, steps, fired>>

(***************************************************************************)
(* parse_expression on arbitrary token sequences                           *)
(***************************************************************************)

\* The largest number of tokens of a text given to parse_expression.
MaxTokens == 4

TokenAlphabet ==
    {<<"A">>, <<"B">>, <<"0">>, <<"1">>, <<"!">>, <<"&">>, <<"|">>, <<"(">>, <<")">>}

\* The sequences of exactly n tokens.
RECURSIVE TokenSeqs(_)
TokenSeqs(n) ==
    IF n = 0 THEN {<<>>}
    ELSE LET shorter == TokenSeqs(n - 1)
         IN  {Append(ts, tok) : ts \in shorter, tok \in TokenAlphabet}

ParseInit ==
    /\ pc = "call"
    /\ fn = "parse_expression"
    /\ \E n \in 1..MaxTokens : \E ts \in TokenSeqs(n) : arg = Join(<<" ">>, ts)
    /\ ret = <<>>
    /\ DriverIdle

CallParse ==
    /\ pc = "call"
    /\ fn = "parse_expression"
    /\ ret' = parse_expression(arg)
    /\ pc' = "returned"
    /\ UNCHANGED <<fn, arg>>
    /\ DriverUnchanged

ParseNext == CallParse

ParseSpec == ParseInit /\ [][ParseNext]_vars

\* The infix grammar  E ::= E '|' T | T,  T ::= T '&' F | F,
\* F ::= '!' F | '(' E ')' | '0' | '1' | identifier.
RECURSIVE IsE(_)
RECURSIVE IsT(_)
RECURSIVE IsF(_)
IsF(ts) ==
    /\ ts # <<>>
    /\ \/ Len(ts) = 1 /\ (ts[1] \in {<<"0">>, <<"1">>} \/ IsVarToken(ts[1]))
       \/ ts[1] = <<"!">> /\ IsF(Tail(ts))
       \/ /\ Len(ts) >= 3
          /\ ts[1] = <<"(">>
          /\ ts[Len(ts)] = <<")">>
          /\ IsE(SubSeq(ts, 2, Len(ts) - 1))
IsT(ts) ==
    \/ IsF(ts)
    \/ \E k \in 2..(Len(ts) - 1) :
          /\ ts[k] = <<"&">>
          /\ IsT(SubSeq(ts, 1, k - 1))
          /\ IsF(SubSeq(ts, k + 1, Len(ts)))
IsE(ts) ==
    \/ IsT(ts)
    \/ \E k \in 2..(Len(ts) - 1) :
          /\ ts[k] = <<"|">>
          /\ IsE(SubSeq(ts, 1, k - 1))
          /\ IsT(SubSeq(ts, k + 1, Len(ts)))

\* C10: parse_expression returns a tree only for a token sequence of the
\* infix grammar; for every other token sequence it raises.
C10_RejectsMalformed ==
    (pc = "returned" /\ fn = "parse_expression" /\ ret.ok)
        => IsE(_tokenize(Strip(arg)).value)

(***************************************************************************)
(* parse_expression on the arrangements of a chain                         *)
(***************************************************************************)

\* The largest number of operands of a chain.
MaxChain == 3

\* The operands: A, B, !A, (A | B), (C & B).
OperandTexts ==
    << <<"A">>, <<"B">>, <<"!", "A">>,
       <<"(", "A", " ", "|", " ", "B", ")">>,
       <<"(", "C", " ", "&", " ", "B", ")">> >>

\* The nondecreasing index sequences of length n from index lo on: each
\* multiset of n operands once.
RECURSIVE Multisets(_, _)
Multisets(n, lo) ==
    IF n = 0 THEN {<<>>}
    ELSE UNION {{<<i>> \o m : m \in Multisets(n - 1, i)} :
                   i \in lo..Len(OperandTexts)}

Orders(n) ==
    {p \in [1..n -> 1..n] : \A i, j \in 1..n : p[i] = p[j] => i = j}

\* " & " or " | "
Infix(op) == <<" ", op, " ">>

\* The texts of the chain of the given operand texts: written flat, or
\* split in two sub-chains, each in parentheses when it has more than one
\* operand.
RECURSIVE ChainTexts(_, _)
ChainTexts(texts, op) ==
    IF Len(texts) = 1 THEN {texts[1]}
    ELSE {Join(Infix(op), texts)}
         \cup UNION {
               {(IF k > 1 THEN <<"(">> \o l \o <<")">> ELSE l)
                \o Infix(op)
                \o (IF k < Len(texts) - 1 THEN <<"(">> \o r \o <<")">> ELSE r) :
                    l \in ChainTexts(SubSeq(texts, 1, k), op),
                    r \in ChainTexts(SubSeq(texts, k + 1, Len(texts)), op)} :
               k \in 1..(Len(texts) - 1)}

\* The chain as first written: the operands in the order given, flat.
BaseText(chain) == Join(Infix(chain.op), chain.operands)

ChainInit ==
    /\ pc = "call"
    /\ fn = "parse_expression"
    /\ \E n \in 2..MaxChain : \E m \in Multisets(n, 1) : \E op \in {"&", "|"} :
          arg = [operands |-> [i \in 1..n |-> OperandTexts[m[i]]], op |-> op]
    /\ ret = <<>>
    /\ DriverIdle

\* parse_expression on one arrangement of the chain: a permutation of the
\* operands and a parenthesization.
CallParseChain ==
    /\ pc = "call"
    /\ fn = "parse_expression"
    /\ \E p \in Orders(Len(arg.operands)) :
          \E text \in ChainTexts([i \in DOMAIN arg.operands |-> arg.operands[p[i]]],
                                 arg.op) :
              ret' = [text |-> text, tree |-> parse_expression(text)]
    /\ pc' = "returned"
    /\ UNCHANGED <<fn, arg>>
    /\ DriverUnchanged

ChainNext == CallParseChain

ChainSpec == ChainInit /\ [][ChainNext]_vars

\* C4: every permutation of the operands and every parenthesization of an
\* &-chain or a |-chain parses to the tree of the chain as first written.
C4_Commutative ==
    pc = "returned" =>
        /\ ret.tree.ok
        /\ ret.tree = parse_expression(BaseText(arg))

\* A chain of three operands, permuted and parenthesized.
C4_Witness ==
    /\ pc = "returned"
    /\ Len(arg.operands) = 3
    /\ ret.text[1] = "("
    /\ arg.operands[1] # arg.operands[3]
    /\ SubSeq(ret.text, 2, Len(arg.operands[3]) + 1) = arg.operands[3]
    /\ ret.tree.ok

(***************************************************************************)
(* _normalize_tree on arbitrary trees                                      *)
(***************************************************************************)

\* The largest number of nodes of a tree given to _normalize_tree.
MaxTreeNodes == 5

TreeLeaves == {Var(<<"A">>), Var(<<"B">>), Const(TRUE)}

\* The nonempty sequences of trees with n nodes in all, given the trees
\* (by number of nodes) and the sequences with fewer nodes.
ForestsOf(n, trees, forests) ==
    {<<t>> : t \in trees[n]}
    \cup UNION {{<<t>> \o f : t \in trees[k], f \in forests[n - k]} : k \in 1..(n - 1)}

\* AnyLevels(n).trees[m], for m in 1..n: the trees of exactly m nodes built
\* from Const, Var, Not, And and Or, an And or Or having one child or more
\* of any kind; AnyLevels(n).forests[m]: the sequences of trees with m
\* nodes in all.
RECURSIVE AnyLevels(_)
AnyLevels(n) ==
    IF n = 1
    THEN [trees |-> <<TreeLeaves>>, forests |-> <<{<<t>> : t \in TreeLeaves}>>]
    ELSE LET prev == AnyLevels(n - 1)
             new == {Not(t) : t \in prev.trees[n - 1]}
                    \cup {And(f) : f \in prev.forests[n - 1]}
                    \cup {Or(f) : f \in prev.forests[n - 1]}
             trees == Append(prev.trees, new)
         IN  [trees |-> trees,
              forests |-> Append(prev.forests, ForestsOf(n, trees, prev.forests))]

SmallerTrees == AnyLevels(MaxTreeNodes - 1)

\* x is a tree of at most MaxTreeNodes nodes.
AnyTree(x) ==
    \/ x \in TreeLeaves
    \/ \E m \in DOMAIN SmallerTrees.trees : \E t \in SmallerTrees.trees[m] : x = Not(t)
    \/ \E m \in DOMAIN SmallerTrees.forests : \E f \in SmallerTrees.forests[m] :
          x = And(f) \/ x = Or(f)

NormTreeInit ==
    /\ pc = "call"
    /\ fn = "_normalize_tree"
    /\ AnyTree(arg)
    /\ ret = <<>>
    /\ DriverIdle

CallNormalizeTree ==
    /\ pc = "call"
    /\ fn = "_normalize_tree"
    /\ ret' = _normalize_tree(arg)
    /\ pc' = "returned"
    /\ UNCHANGED <<fn, arg>>
    /\ DriverUnchanged

NormTreeNext == CallNormalizeTree

NormTreeSpec == NormTreeInit /\ [][NormTreeNext]_vars

\* C5: normalizing a normalized tree changes nothing.
C5_Idempotent == pc = "returned" => _normalize_tree(ret) = ret

\* A tree with a nested same-kind node whose children had to be spliced
\* and sorted.
C5_Witness ==
    /\ pc = "returned"
    /\ ret # arg
    /\ isinstance(arg, "And")
    /\ \E i \in DOMAIN arg.children : isinstance(arg.children[i], "And")
    /\ isinstance(ret, "And")
    /\ Len(ret.children) >= 3

(***************************************************************************)
(* normalize_symbols on texts with alias words                             *)
(***************************************************************************)

\* The largest number of words of a text given to normalize_symbols.
MaxWords == 3

\* Operands, the alias words in several mixes of case, alias symbols, and
\* a character that is not allowed.
Words ==
    { <<"A">>, <<"B">>, <<"(">>, <<")">>,
      <<"A", "N", "D">>, <<"a", "n", "d">>, <<"A", "n", "d">>, <<"a", "N", "D">>,
      <<"O", "R">>, <<"o", "r">>, <<"O", "r">>, <<"o", "R">>,
      <<"N", "O", "T">>, <<"n", "o", "t">>, <<"N", "o", "t">>, <<"n", "O", "t">>,
      <<"*">>, <<"+">>, <<"~">>, <<"U+2227">>, <<"#">> }

\* The sequences of exactly n words.
RECURSIVE WordSeqs(_)
WordSeqs(n) ==
    IF n = 0 THEN {<<>>}
    ELSE LET shorter == WordSeqs(n - 1)
         IN  {Append(ws, w) : ws \in shorter, w \in Words}

SymbolsInit ==
    /\ pc = "call"
    /\ fn = "normalize_symbols"
    /\ \E n \in 1..MaxWords : \E ws \in WordSeqs(n) : arg = Join(<<" ">>, ws)
    /\ ret = <<>>
    /\ DriverIdle

CallNormalizeSymbols ==
    /\ pc = "call"
    /\ fn = "normalize_symbols"
    /\ ret' = normalize_symbols(arg)
    /\ pc' = "returned"
    /\ UNCHANGED <<fn, arg>>
    /\ DriverUnchanged

SymbolsNext == CallNormalizeSymbols

SymbolsSpec == SymbolsInit /\ [][SymbolsNext]_vars

\* The upper-case letter of a letter.
Upper(ch) ==
    CASE ch = "a" -> "A" [] ch = "d" -> "D" [] ch = "n" -> "N"
      [] ch = "o" -> "O" [] ch = "r" -> "R" [] ch = "t" -> "T"
      [] OTHER -> ch

\* word (in upper case) occurs in str, in some mix of upper and lower case.
OccursAnyCase(word, str) ==
    \E i \in 1..(Len(str) - Len(word) + 1) :
        \A j \in 1..Len(word) : Upper(str[i + j - 1]) = word[j]

\* C6: normalize_symbols leaves no AND, OR or NOT in the text, in whatever
\* mix of upper and lower case they were written, and "A And B" normalizes
\* to "A & B".
C6_CaseInsensitive ==
    (pc = "returned" /\ fn = "normalize_symbols") =>
        /\ ret.ok =>
              /\ ~OccursAnyCase(<<"A", "N", "D">>, ret.value)
              /\ ~OccursAnyCase(<<"O", "R">>, ret.value)
              /\ ~OccursAnyCase(<<"N", "O", "T">>, ret.value)
        /\ arg = <<"A", " ", "A", "n", "d", " ", "B">>
              => ret = Return(<<"A", " ", "&", " ", "B">>)

====
